---- MODULE Spec2Model ----
(***************************************************************************)
(* Model of bin/pipeline_run.py: the main() coroutine that runs a pipeline *)
(* once, or keeps a "request" (wake + asr) task and a "response"           *)
(* (intent + handle + tts) task overlapping, cancelling the response when  *)
(* a new request finishes first.                                           *)
(*                                                                         *)
(* main() is one asyncio task.  It only suspends at `await run_pipeline`   *)
(* (line 109) and at `await asyncio.wait` (line 149); the pipeline tasks   *)
(* can only change state while main() is suspended there.                  *)
(***************************************************************************)
EXTENDS Integers, Sequences, FiniteSets, TLC

\* Bound on the number of run_pipeline invocations created in one behaviour.
MaxTasks == 5

\* Python's None for a task handle / an unbound pipeline_result.
None == 0

\* rhasspy3.pipeline.StopAfterDomain values accepted by --stop-after.
StopAfterDomain == {"wake", "asr", "intent", "handle", "tts"}

\* --stop-after not given (args.stop_after is None).
NoStop == "none"

\* stages a request runs, each of which the command line can pre-supply:
\* wake_detection (--wake-name) and asr_transcript / asr_wav_in (--asr-text, --asr-wav)
EarlyStages == {"wake", "asr"}

VARIABLES
    loop,             \* args.loop
    stop_after,       \* args.stop_after
    skips,            \* early stages with a pre-supplied result (--wake-name, --asr-text / --asr-wav)
    pc,               \* position of main()
    tasks,            \* every run_pipeline invocation created so far
    request_task,     \* local request_task (task id, None before line 131)
    response_task,    \* local response_task (task id or None)
    aws,              \* local aws
    done,             \* local done
    pending,          \* local pending
    pipeline_result,  \* local pipeline_result: id of the task whose result it is
    out,              \* records written to sys.stdout, by source task id
    raised,           \* task whose exception propagated out of main(), or None
    completed,        \* history: task ids in the order the tasks finished
    consumed,         \* history: tasks whose completion main() has processed
    observed          \* history: responses seen pending by a wait() that returned the request done

vars == <<loop, stop_after, skips, pc, tasks, request_task, response_task, aws, done,
          pending, pipeline_result, out, raised, completed, consumed, observed>>

TaskIds == 1..Len(tasks)

Range(s) == {s[i] : i \in 1..Len(s)}

\* asyncio.Task.done()
IsDone(tks, t) == tks[t].status # "pending"

\* asyncio.Task.cancelled()
IsCancelled(tks, t) == tks[t].status = "cancelled"

\* asyncio.create_task(run_pipeline(...)): a new pending invocation.
\* seed: the result the invocation continues from; stop: its stop_after;
\* given: the early stages it was handed a result for instead of running them
NewTask(role, seed, stop, given) ==
    [role |-> role, status |-> "pending", cancel_requested |-> FALSE,
     transcript |-> FALSE, seed |-> seed, stop |-> stop, given |-> given]

Init ==
    /\ loop \in BOOLEAN
    /\ stop_after \in StopAfterDomain \cup {NoStop}
    /\ skips \in SUBSET EarlyStages
    /\ pc = "single_check"
    /\ tasks = <<>>
    /\ request_task = None
    /\ response_task = None
    /\ aws = {}
    /\ done = {}
    /\ pending = {}
    /\ pipeline_result = None
    /\ out = <<>>
    /\ raised = None
    /\ completed = <<>>
    /\ consumed = {}
    /\ observed = {}

(***************************************************************************)
(* Single-shot part, lines 107-127.                                        *)
(***************************************************************************)

\* line 107: if not args.loop or args.stop_after in ("wake", "asr")
SingleShot(lp, sa) == (~lp) \/ sa \in {"wake", "asr"}

\* line 107, and line 129 when the branch is not taken
SingleCheck ==
    /\ pc = "single_check"
    /\ pc' = IF SingleShot(loop, stop_after) THEN "single_run" ELSE "create_request"
    /\ UNCHANGED <<loop, stop_after, skips, tasks, request_task, response_task, aws, done,
                   pending, pipeline_result, out, raised, completed, consumed, observed>>

\* lines 109-121: run_pipeline(...) is called and awaited directly
SingleRun ==
    /\ pc = "single_run"
    /\ Len(tasks) < MaxTasks
    /\ tasks' = Append(tasks, NewTask("single", None, stop_after, skips))
    /\ pc' = "single_await"
    /\ UNCHANGED <<loop, stop_after, skips, request_task, response_task, aws, done,
                   pending, pipeline_result, out, raised, completed, consumed, observed>>

\* variant of ResultRaises: the exception of a failed invocation is dropped
ResultNeverRaises(tks, t) == FALSE

\* task.result() / a direct await re-raises the exception of a failed invocation
ResultRaises(tks, t) == tks[t].status = "failed"

\* lines 109-127 (and line 129 after the break): the awaited invocation
\* returned or raised; its record is written, and without --loop the while
\* loop is left and control falls through to line 129
SingleReturn ==
    /\ pc = "single_await"
    /\ IsDone(tasks, Len(tasks))
    /\ consumed' = consumed \cup {Len(tasks)}
    /\ IF ResultRaises(tasks, Len(tasks))
       THEN /\ raised' = Len(tasks)
            /\ pc' = "raised"
            /\ UNCHANGED <<pipeline_result, out>>
       ELSE /\ pipeline_result' = Len(tasks)
            /\ out' = Append(out, pipeline_result')
            /\ pc' = IF ~loop THEN "create_request" ELSE "single_run"
            /\ UNCHANGED raised
    /\ UNCHANGED <<loop, stop_after, skips, tasks, request_task, response_task, aws, done,
                   pending, completed, observed>>

(***************************************************************************)
(* Overlap loop, lines 129-189.                                            *)
(***************************************************************************)

\* variant of InitialAws: the leftover response is not awaited
InitialAwsRequestOnly(tks, req, resp) == {req}

\* lines 144-146: aws = [request_task] plus a response that is not done yet
InitialAws(tks, req, resp) ==
    {req} \cup (IF resp # None /\ ~IsDone(tks, resp) THEN {resp} ELSE {})

\* lines 131-146: start the next request invocation and build aws
CreateRequest ==
    /\ pc = "create_request"
    /\ Len(tasks) < MaxTasks
    /\ tasks' = Append(tasks, NewTask("request", None, "asr", skips))
    /\ request_task' = Len(tasks) + 1
    /\ aws' = InitialAws(tasks', request_task', response_task)
    /\ pc' = "wait"
    /\ UNCHANGED <<loop, stop_after, skips, response_task, done, pending, pipeline_result,
                   out, raised, completed, consumed, observed>>

\* line 149: asyncio.wait(aws, FIRST_COMPLETED) resumes main() once at least
\* one awaited task is done; done/pending are split when main() resumes
Wait ==
    /\ pc = "wait"
    /\ \E t \in aws : IsDone(tasks, t)
    /\ done' = {t \in aws : IsDone(tasks, t)}
    /\ pending' = aws \ done'
    /\ observed' = IF request_task \in done' /\ response_task # None
                      /\ response_task \in pending'
                   THEN observed \cup {response_task} ELSE observed
    /\ pc' = "check_response"
    /\ UNCHANGED <<loop, stop_after, skips, tasks, request_task, response_task, aws,
                   pipeline_result, out, raised, completed, consumed>>

\* variant of ResponseResult: the response's own result is taken even when cancelled
ResponseResultAlways(tks, resp, pr) == resp

\* lines 152-153: task.result() of a response that is not cancelled replaces
\* pipeline_result; for a cancelled one pipeline_result keeps its old value
ResponseResult(tks, resp, pr) ==
    IF ~IsCancelled(tks, resp) THEN resp ELSE pr

\* variant of CheckResponse: nothing is written for a cancelled response
CheckResponseSilentCancel ==
    /\ pc = "check_response"
    /\ IF response_task # None /\ response_task \in done
       THEN /\ consumed' = consumed \cup {response_task}
            /\ IF ResultRaises(tasks, response_task)
               THEN /\ raised' = response_task
                    /\ pc' = "raised"
                    /\ UNCHANGED <<pipeline_result, out, response_task>>
               ELSE /\ pipeline_result' = ResponseResult(tasks, response_task, pipeline_result)
                    /\ out' = IF IsCancelled(tasks, response_task)
                              THEN out ELSE Append(out, pipeline_result')
                    /\ response_task' = None
                    /\ pc' = "check_cancel"
                    /\ UNCHANGED raised
       ELSE /\ pc' = "check_cancel"
            /\ UNCHANGED <<pipeline_result, out, response_task, raised, consumed>>
    /\ UNCHANGED <<loop, stop_after, skips, tasks, request_task, aws, done, pending,
                   completed, observed>>

\* variant of CheckResponse: the slot of a reported response is not cleared
CheckResponseKeepsSlot ==
    /\ pc = "check_response"
    /\ IF response_task # None /\ response_task \in done
       THEN /\ consumed' = consumed \cup {response_task}
            /\ IF ResultRaises(tasks, response_task)
               THEN /\ raised' = response_task
                    /\ pc' = "raised"
                    /\ UNCHANGED <<pipeline_result, out>>
               ELSE /\ pipeline_result' = ResponseResult(tasks, response_task, pipeline_result)
                    /\ out' = Append(out, pipeline_result')
                    /\ pc' = "check_cancel"
                    /\ UNCHANGED raised
       ELSE /\ pc' = "check_cancel"
            /\ UNCHANGED <<pipeline_result, out, raised, consumed>>
    /\ UNCHANGED <<loop, stop_after, skips, tasks, request_task, response_task, aws, done,
                   pending, completed, observed>>

\* lines 151-156: a finished response is reported and its slot cleared;
\* response_task.result() re-raises the exception of a failed task
CheckResponse ==
    /\ pc = "check_response"
    /\ IF response_task # None /\ response_task \in done
       THEN /\ consumed' = consumed \cup {response_task}
            /\ IF ResultRaises(tasks, response_task)
               THEN /\ raised' = response_task
                    /\ pc' = "raised"
                    /\ UNCHANGED <<pipeline_result, out, response_task>>
               ELSE /\ pipeline_result' = ResponseResult(tasks, response_task, pipeline_result)
                    /\ out' = Append(out, pipeline_result')
                    /\ response_task' = None
                    /\ pc' = "check_cancel"
                    /\ UNCHANGED raised
       ELSE /\ pc' = "check_cancel"
            /\ UNCHANGED <<pipeline_result, out, response_task, raised, consumed>>
    /\ UNCHANGED <<loop, stop_after, skips, tasks, request_task, aws, done, pending,
                   completed, observed>>

\* variant of ShouldCancel: tests the response against done instead of pending
ShouldCancelResponseDone(req, resp, dn, pnd) ==
    req \in dn /\ resp # None /\ resp \in dn

\* lines 158-162: the request is done and the response is still pending
ShouldCancel(req, resp, dn, pnd) ==
    req \in dn /\ resp # None /\ resp \in pnd

\* lines 158-163: response_task.cancel()
CheckCancel ==
    /\ pc = "check_cancel"
    /\ IF ShouldCancel(request_task, response_task, done, pending)
       THEN tasks' = [tasks EXCEPT ![response_task].cancel_requested = TRUE]
       ELSE UNCHANGED tasks
    /\ pc' = "check_aws"
    /\ UNCHANGED <<loop, stop_after, skips, request_task, response_task, aws, done, pending,
                   pipeline_result, out, raised, completed, consumed, observed>>

\* variant of CheckAws: the inner loop is left as soon as the request is done
CheckAwsLeavesOnRequest ==
    /\ pc = "check_aws"
    /\ aws' = pending
    /\ pc' = IF pending = {} \/ request_task \in done THEN "result" ELSE "wait"
    /\ UNCHANGED <<loop, stop_after, skips, tasks, request_task, response_task, done, pending,
                   pipeline_result, out, raised, completed, consumed, observed>>

\* lines 165-167: keep waiting on what is still pending, or leave the inner loop
CheckAws ==
    /\ pc = "check_aws"
    /\ aws' = pending
    /\ pc' = IF pending = {} THEN "result" ELSE "wait"
    /\ UNCHANGED <<loop, stop_after, skips, tasks, request_task, response_task, done, pending,
                   pipeline_result, out, raised, completed, consumed, observed>>

\* variant of NoTranscript: every request result is written at once
NoTranscriptAlways(tks, t) == TRUE

\* variant of NoTranscript: the test on the transcript is inverted
NoTranscriptInverted(tks, t) == tks[t].transcript

\* line 171: the request's result carries no transcript
NoTranscript(tks, t) == ~tks[t].transcript

\* variant of Result: the request's result is not stored in pipeline_result
ResultKeepsOldResult ==
    /\ pc = "result"
    /\ consumed' = consumed \cup {request_task}
    /\ IF ResultRaises(tasks, request_task)
       THEN /\ raised' = request_task
            /\ pc' = "raised"
            /\ UNCHANGED <<pipeline_result, out>>
       ELSE /\ UNCHANGED <<raised, pipeline_result>>
            /\ IF NoTranscript(tasks, request_task)
               THEN /\ out' = Append(out, request_task)
                    /\ pc' = "create_request"
               ELSE /\ pc' = "create_response"
                    /\ UNCHANGED out
    /\ UNCHANGED <<loop, stop_after, skips, tasks, request_task, response_task, aws, done,
                   pending, completed, observed>>

\* variant of Result: a failed request is skipped instead of re-raised
ResultIgnoresFailure ==
    /\ pc = "result"
    /\ consumed' = consumed \cup {request_task}
    /\ IF ResultRaises(tasks, request_task)
       THEN /\ pc' = "create_request"
            /\ UNCHANGED <<pipeline_result, out, raised>>
       ELSE /\ pipeline_result' = request_task
            /\ UNCHANGED raised
            /\ IF NoTranscript(tasks, pipeline_result')
               THEN /\ out' = Append(out, pipeline_result')
                    /\ pc' = "create_request"
               ELSE /\ pc' = "create_response"
                    /\ UNCHANGED out
    /\ UNCHANGED <<loop, stop_after, skips, tasks, request_task, response_task, aws, done,
                   pending, completed, observed>>

\* lines 169-174: request_task.result() (re-raising a failure); a result
\* without transcript is written at once and the loop continues
Result ==
    /\ pc = "result"
    /\ consumed' = consumed \cup {request_task}
    /\ IF ResultRaises(tasks, request_task)
       THEN /\ raised' = request_task
            /\ pc' = "raised"
            /\ UNCHANGED <<pipeline_result, out>>
       ELSE /\ pipeline_result' = request_task
            /\ UNCHANGED raised
            /\ IF NoTranscript(tasks, pipeline_result')
               THEN /\ out' = Append(out, pipeline_result')
                    /\ pc' = "create_request"
               ELSE /\ pc' = "create_response"
                    /\ UNCHANGED out
    /\ UNCHANGED <<loop, stop_after, skips, tasks, request_task, response_task, aws, done,
                   pending, completed, observed>>

\* variant of CreateResponse: the response is awaited before the next request
CreateResponseAwaits ==
    /\ pc = "create_response"
    /\ Len(tasks) < MaxTasks
    /\ tasks' = Append(tasks, NewTask("response", pipeline_result, stop_after, EarlyStages))
    /\ response_task' = Len(tasks) + 1
    /\ aws' = {response_task'}
    /\ pc' = "wait"
    /\ UNCHANGED <<loop, stop_after, skips, request_task, done, pending, pipeline_result,
                   out, raised, completed, consumed, observed>>

\* lines 176-189: start the response invocation from the request's result
CreateResponse ==
    /\ pc = "create_response"
    /\ Len(tasks) < MaxTasks
    /\ tasks' = Append(tasks, NewTask("response", pipeline_result, stop_after, EarlyStages))
    /\ response_task' = Len(tasks) + 1
    /\ pc' = "create_request"
    /\ UNCHANGED <<loop, stop_after, skips, request_task, aws, done, pending, pipeline_result,
                   out, raised, completed, consumed, observed>>

(***************************************************************************)
(* The run_pipeline invocations (rhasspy3.pipeline.run, outside this file) *)
(* finish while main() is suspended at one of its two awaits.  A task that *)
(* was asked to cancel may end cancelled, or may still return or raise.    *)
(***************************************************************************)

Suspended == pc \in {"single_await", "wait"}

\* the event loop is running the invocations: main() is suspended, or
\* asyncio.run() is waiting for the cancelled tasks after an interrupt
LoopRuns == Suspended \/ pc = "interrupted"

\* whether the result of a finished invocation carries a transcript
TranscriptChoices(t) ==
    IF tasks[t].role = "request" THEN BOOLEAN
    ELSE IF tasks[t].role = "single" /\ tasks[t].stop = "wake" THEN {FALSE}
    ELSE {TRUE}

\* the invocation returns a PipelineResult
TaskReturns(t) ==
    /\ LoopRuns
    /\ tasks[t].status = "pending"
    /\ \E b \in TranscriptChoices(t) :
          tasks' = [tasks EXCEPT ![t].status = "ok", ![t].transcript = b]
    /\ completed' = Append(completed, t)
    /\ UNCHANGED <<loop, stop_after, skips, pc, request_task, response_task, aws, done, pending,
                   pipeline_result, out, raised, consumed, observed>>

\* the invocation raises an exception other than CancelledError
TaskRaises(t) ==
    /\ LoopRuns
    /\ tasks[t].status = "pending"
    /\ tasks' = [tasks EXCEPT ![t].status = "failed"]
    /\ completed' = Append(completed, t)
    /\ UNCHANGED <<loop, stop_after, skips, pc, request_task, response_task, aws, done, pending,
                   pipeline_result, out, raised, consumed, observed>>

\* the invocation ends with CancelledError after Task.cancel() was called
\* (line 163 is the only cancel() in main(); an invocation that cancels itself
\* without being asked is not modelled)
TaskCancelled(t) ==
    /\ LoopRuns
    /\ tasks[t].status = "pending"
    /\ tasks[t].cancel_requested
    /\ tasks' = [tasks EXCEPT ![t].status = "cancelled"]
    /\ completed' = Append(completed, t)
    /\ UNCHANGED <<loop, stop_after, skips, pc, request_task, response_task, aws, done, pending,
                   pipeline_result, out, raised, consumed, observed>>

Next ==
    \/ SingleCheck
    \/ SingleRun
    \/ SingleReturn
    \/ CreateRequest
    \/ Wait
    \/ CheckResponse
    \/ CheckCancel
    \/ CheckAws
    \/ Result
    \/ CreateResponse
    \/ \E t \in TaskIds : TaskReturns(t)
    \/ \E t \in TaskIds : TaskRaises(t)
    \/ \E t \in TaskIds : TaskCancelled(t)

Spec == Init /\ [][Next]_vars

(***************************************************************************)
(* Process interrupt, lines 192-196: asyncio.run(main()) ends main() where *)
(* it is, cancels every task that is left and waits for them; the          *)
(* KeyboardInterrupt it raises is caught and dropped.                      *)
(***************************************************************************)

\* variant of CancelAll: the tasks that are left are not cancelled
CancelNone(tks) == tks

\* asyncio.run() on its way out: Task.cancel() on every task not done
CancelAll(tks) ==
    [t \in DOMAIN tks |->
        IF tks[t].status = "pending"
        THEN [tks[t] EXCEPT !.cancel_requested = TRUE]
        ELSE tks[t]]

\* lines 193-196: the interrupt stops main() and nothing is reported
Interrupt ==
    /\ pc \notin {"raised", "interrupted"}
    /\ pc' = "interrupted"
    /\ tasks' = CancelAll(tasks)
    /\ UNCHANGED <<loop, stop_after, skips, request_task, response_task, aws, done,
                   pending, pipeline_result, out, raised, completed, consumed, observed>>

NextInterrupt == Next \/ Interrupt

SpecInterrupt == Init /\ [][NextInterrupt]_vars

TypeOK ==
    /\ loop \in BOOLEAN
    /\ stop_after \in StopAfterDomain \cup {NoStop}
    /\ skips \subseteq EarlyStages
    /\ Len(tasks) <= MaxTasks
    /\ request_task \in 0..Len(tasks)
    /\ response_task \in 0..Len(tasks)
    /\ aws \subseteq TaskIds /\ done \subseteq TaskIds /\ pending \subseteq TaskIds
    /\ pipeline_result \in 0..Len(tasks)
    /\ raised \in 0..Len(tasks)

(***************************************************************************)
(* Properties.                                                             *)
(***************************************************************************)

\* invocations of a role that were started and have not finished
InFlight(role) ==
    {t \in TaskIds : tasks[t].role = role /\ tasks[t].status = "pending"}

\* position of task t in the completion order (0: not finished)
CompletionIndex(t) ==
    IF t \in Range(completed)
    THEN CHOOSE i \in 1..Len(completed) : completed[i] = t
    ELSE 0

\* number of records written from the result of task t
Count(t) == Cardinality({i \in 1..Len(out) : out[i] = t})

\* C1: at every instant at most one request invocation and at most one
\* response invocation are in flight (so never more than two in total, and
\* never two responses).
C1_AtMostOneEach ==
    /\ Cardinality(InFlight("request")) <= 1
    /\ Cardinality(InFlight("response")) <= 1

\* C1 witness: a request and a response are in flight together after an
\* earlier response was cancelled and an earlier request completed.
C1_Witness ==
    /\ InFlight("request") # {}
    /\ InFlight("response") # {}
    /\ \E t \in TaskIds : tasks[t].role = "response" /\ IsCancelled(tasks, t)

\* C2: a response that a wait() returned as pending together with a done
\* request has had cancel() called on it as soon as main() is past line 163,
\* hence before the request's result is processed (line 169) and before a new
\* response is started (line 176).
C2_BargeInCancels ==
    \A r \in observed :
        \/ tasks[r].cancel_requested
        \/ pc \in {"check_response", "check_cancel"} /\ r = response_task /\ r \in pending

\* C2 witness: the request's result is about to be processed after the
\* response it preempted was asked to cancel and then finished.
C2_Witness ==
    /\ pc = "result"
    /\ Len(completed) >= 2
    /\ completed[Len(completed)] \in observed
    /\ tasks[completed[Len(completed)]].cancel_requested
    /\ CompletionIndex(request_task) < Len(completed)

\* main() is at line 151 with a done response that ended cancelled after a
\* wait() had returned it pending next to a done request
CancelledResponseSeen ==
    /\ pc = "check_response"
    /\ response_task # None
    /\ response_task \in done
    /\ response_task \in observed
    /\ IsCancelled(tasks, response_task)

C5_Original ==
    \A i, j \in 1..Len(out) :
        i < j => CompletionIndex(out[i]) <= CompletionIndex(out[j])

\* main() is at line 151 with a response that returned a result while the
\* request is still pending
ResponseFirst ==
    /\ pc = "check_response"
    /\ response_task # None
    /\ response_task \in done
    /\ tasks[response_task].status = "ok"
    /\ request_task \in pending

\* C6: when the response returned before the pending request, its record is
\* written and the slot cleared; main() then waits on the same request alone
\* and starts nothing; a finished response is never asked to cancel; and when a
\* response is about to be started every response that returned a result has
\* its record in the output already.
C6_ResponseFirst ==
    /\ [](pc = "create_response" =>
            \A r \in TaskIds :
                tasks[r].role = "response" /\ tasks[r].status = "ok" => Count(r) = 1)
    /\ [][/\ ResponseFirst =>
                out' = Append(out, response_task) /\ response_task' = None
          /\ (pc = "check_aws" /\ response_task = None /\ request_task \in pending) =>
                /\ pc' = "wait"
                /\ aws' = {request_task}
                /\ tasks' = tasks
                /\ request_task' = request_task
          /\ \A t \in TaskIds :
                IsDone(tasks, t) =>
                    tasks'[t].cancel_requested = tasks[t].cancel_requested]_vars

\* C6 witness: the request finished after the response had returned and been
\* written; main() is about to process the request with no cancellation asked.
C6_Witness ==
    /\ pc = "result"
    /\ tasks[request_task].status = "ok"
    /\ \E r \in consumed :
          /\ tasks[r].role = "response" /\ tasks[r].status = "ok"
          /\ ~tasks[r].cancel_requested
          /\ r = request_task - 1
          /\ CompletionIndex(r) < CompletionIndex(request_task)
          /\ Count(r) = 1

\* C7: a response is only ever seeded by a request whose result carries a
\* transcript, and once a request without transcript has been processed the
\* response slot is empty, nothing was started, and main() is at line 131
\* about to start the next request.
C7_NoTranscriptNoResponse ==
    /\ [](/\ \A r \in TaskIds : tasks[r].role = "response" =>
                /\ tasks[r].seed \in 1..(r - 1)
                /\ tasks[tasks[r].seed].role = "request"
                /\ tasks[tasks[r].seed].status = "ok"
                /\ tasks[tasks[r].seed].transcript
          /\ (/\ request_task # None
              /\ request_task \in consumed
              /\ tasks[request_task].status = "ok"
              /\ ~tasks[request_task].transcript) =>
                /\ pc = "create_request"
                /\ response_task = None
                /\ request_task = Len(tasks))
    /\ [][(pc = "result" /\ tasks[request_task].status = "ok"
             /\ ~tasks[request_task].transcript) =>
                /\ pc' = "create_request"
                /\ response_task' = None
                /\ tasks' = tasks]_vars

\* C7 witness: a request without transcript was processed right after an
\* earlier turn that did start a response.
C7_Witness ==
    /\ pc = "create_request"
    /\ request_task # None
    /\ request_task \in consumed
    /\ tasks[request_task].status = "ok"
    /\ ~tasks[request_task].transcript
    /\ \E r \in TaskIds : tasks[r].role = "response"

C9_Original ==
    \A r \in TaskIds :
        (tasks[r].role = "response" /\ tasks[r].status = "failed"
           /\ tasks[r].cancel_requested) => raised # r

\* C10: a response that failed without a cancellation request never has a
\* record, the request started right after it is the last invocation ever
\* started, and when main() processes the failure it leaves main() as the
\* request's failure would.
C10_ResponseFailureStops ==
    \A r \in TaskIds :
        (tasks[r].role = "response" /\ tasks[r].status = "failed"
           /\ ~tasks[r].cancel_requested) =>
            /\ Count(r) = 0
            /\ Len(tasks) = r + 1
            /\ r \in consumed => pc = "raised" /\ raised = r
            /\ r \notin consumed => pc \in {"wait", "check_response"}

\* C10 witness: the failure of an uncancelled response has left main() while
\* the request is still pending.
C10_Witness ==
    /\ pc = "raised"
    /\ raised # None
    /\ tasks[raised].role = "response"
    /\ ~tasks[raised].cancel_requested
    /\ tasks[request_task].status = "pending"

\* C11: an interrupt, wherever main() is, leaves every invocation that is
\* still in flight asked to cancel, and from the interrupt on no record is
\* written, no invocation is started, main() stays stopped and no failure is
\* reported.
C11_InterruptStops ==
    /\ [](pc = "interrupted" =>
            /\ raised = None
            /\ \A t \in TaskIds :
                  tasks[t].status = "pending" => tasks[t].cancel_requested)
    /\ [][(pc = "interrupted" \/ pc' = "interrupted") =>
            /\ out' = out
            /\ Len(tasks') = Len(tasks)
            /\ pc' = "interrupted"
            /\ raised' = raised]_vars

\* C11 witness: the interrupt came while a request and a response were both
\* in flight; neither had been asked to cancel by main(), both ended cancelled.
C11_Witness ==
    /\ pc = "interrupted"
    /\ request_task # None /\ response_task # None
    /\ response_task \notin observed
    /\ IsCancelled(tasks, request_task)
    /\ IsCancelled(tasks, response_task)
    /\ Len(out) >= 1

\* C12 (as stated): without --loop exactly one invocation is issued, the
\* single-shot one, at most one record is written, and no request or response
\* task of the overlap loop is ever created.
C12_Original ==
    ~loop =>
        /\ Len(tasks) <= 1
        /\ Len(out) <= 1
        /\ \A t \in TaskIds : tasks[t].role = "single"

\* C13 (as stated): the completion of a request that finished while a response
\* was pending is processed without waiting for the outcome of the
\* cancellation: main() never goes back to waiting for that response with the
\* request still unprocessed.
C13_Original ==
    (pc = "wait" /\ response_task # None /\ response_task \in observed) =>
        request_task \in consumed

\* C14: right after a response is started main() is at line 131, and from
\* there the next request is started at once and the wait is entered on both:
\* the new request and the response seeded by the previous request are in
\* flight together, the response never having been waited for.
C14_Overlap ==
    /\ [](pc = "create_request" /\ response_task # None =>
            /\ tasks[response_task].status = "pending"
            /\ tasks[response_task].seed = request_task
            /\ response_task = Len(tasks)
            /\ request_task \in consumed)
    /\ [][/\ pc = "create_response" =>
                /\ pc' = "create_request"
                /\ response_task' = Len(tasks')
                /\ aws' = aws
          /\ (pc = "create_request" /\ response_task # None) =>
                /\ pc' = "wait"
                /\ request_task' = Len(tasks) + 1
                /\ aws' = {request_task', response_task}
                /\ tasks'[request_task'].status = "pending"
                /\ tasks'[response_task].status = "pending"]_vars

\* C14 witness: main() waits on a new request and on the response of the
\* previous turn, both in flight.
C14_Witness ==
    /\ pc = "wait"
    /\ response_task # None
    /\ request_task = response_task + 1
    /\ aws = {request_task, response_task}
    /\ tasks[request_task].status = "pending"
    /\ tasks[response_task].status = "pending"
    /\ tasks[tasks[response_task].seed].transcript

\* the request started last before task r
LatestRequestBefore(r) ==
    CHOOSE q \in 1..(r - 1) :
        /\ tasks[q].role = "request"
        /\ \A p \in (q + 1)..(r - 1) : tasks[p].role # "request"

\* C15: every response continues from the result of the request that was
\* started (and completed) last before it, a result that carries a transcript,
\* never from an older request's or from a response's result; it is handed the
\* detection and the transcript of that result and runs up to args.stop_after.
C15_SeededByLatestRequest ==
    \A r \in TaskIds : tasks[r].role = "response" =>
        /\ tasks[r].seed \in 1..(r - 1)
        /\ tasks[tasks[r].seed].role = "request"
        /\ tasks[r].seed = LatestRequestBefore(r)
        /\ \A q \in 1..(r - 1) :
              tasks[q].role = "request" =>
                  CompletionIndex(q) <= CompletionIndex(tasks[r].seed)
        /\ tasks[tasks[r].seed].status = "ok"
        /\ tasks[tasks[r].seed].transcript
        /\ tasks[r].given = EarlyStages
        /\ tasks[r].stop = stop_after

\* C15 witness: a second response was started, after the first one had
\* returned its own result, from the second request.
C15_Witness ==
    \E r \in TaskIds :
        /\ tasks[r].role = "response"
        /\ tasks[r].seed = r - 1
        /\ \E r0 \in 1..(r - 2) :
              /\ tasks[r0].role = "response"
              /\ tasks[r0].status = "ok"
              /\ Count(r0) = 1

\* C16: a pending invocation is one of the last two started.  When the next
\* request is about to be started everything has finished and been processed
\* except the response just started from the last request; when a response is
\* about to be started the response slot is empty and nothing is pending.
C16_Lifecycle ==
    /\ \A t \in TaskIds : tasks[t].status = "pending" => t >= Len(tasks) - 1
    /\ pc = "create_request" =>
          /\ \A t \in TaskIds : t # response_task =>
                IsDone(tasks, t) /\ t \in consumed
          /\ response_task # None =>
                /\ tasks[response_task].seed = request_task
                /\ response_task = Len(tasks)
    /\ pc = "create_response" =>
          /\ response_task = None
          /\ \A t \in TaskIds : IsDone(tasks, t) /\ t \in consumed

\* C16 witness: a response is about to be started after the previous response
\* was cancelled and acknowledged it.
C16_Witness ==
    /\ pc = "create_response"
    /\ Len(tasks) >= 4
    /\ \E r \in observed : IsCancelled(tasks, r) /\ r \in consumed

\* C17 (as stated): only the first request of the overlap loop is handed the
\* pre-supplied results of the early stages; every later request runs without
\* them.
C17_Original ==
    \A t \in TaskIds :
        (tasks[t].role = "request"
           /\ \E q \in 1..(t - 1) : tasks[q].role = "request") =>
            tasks[t].given = {}

\* a transcript is pre-supplied although the pipeline is to stop after wake
Inconsistent(sk, sa) == "asr" \in sk /\ sa = "wake"

\* C18 (as stated): with a pre-supplied result that is inconsistent with
\* --stop-after no invocation is ever started and no record is written.
C18_Original ==
    Inconsistent(skips, stop_after) => Len(tasks) = 0 /\ out = <<>>

\* C19: once a response that did not fail has been processed, the turn has
\* exactly one record: the response's own result if it returned one, the
\* result of the request that seeded it if it ended cancelled; and a request
\* with a transcript has no record as long as its response is not processed.
C19_OneRecordPerTurn ==
    /\ \A r \in consumed :
          (tasks[r].role = "response" /\ tasks[r].status # "failed") =>
              /\ Count(r) + Count(tasks[r].seed) = 1
              /\ Count(r) = IF IsCancelled(tasks, r) THEN 0 ELSE 1
    /\ \A q \in consumed :
          (/\ tasks[q].role = "request" /\ tasks[q].status = "ok"
           /\ tasks[q].transcript
           /\ \A r \in consumed : tasks[r].seed # q) => Count(q) = 0

\* C19 witness: one turn ended with the response's own record, another with
\* the stored result of its request because the response was cancelled.
C19_Witness ==
    /\ \E r \in consumed :
          /\ tasks[r].role = "response" /\ tasks[r].status = "ok"
          /\ Count(r) = 1 /\ Count(tasks[r].seed) = 0
    /\ \E r \in consumed :
          /\ tasks[r].role = "response" /\ IsCancelled(tasks, r)
          /\ Count(r) = 0 /\ Count(tasks[r].seed) = 1

\* the last wait() returned the request and response r both done
BothDone(r) ==
    /\ r \in done
    /\ tasks[r].role = "response"
    /\ request_task \in done

\* C20: when one wait() returns the request and the response both done, the
\* response is never asked to cancel; once line 156 is passed its record is the
\* last one written and its slot is empty while the request is still
\* unprocessed; line 169 then processes the request and a transcript leads to
\* line 176.
C20_BothDone ==
    /\ [](\A r \in TaskIds :
            /\ (BothDone(r) /\ pc = "check_response") =>
                  r = response_task /\ ~tasks[r].cancel_requested
            /\ (BothDone(r) /\ pc \in {"check_cancel", "check_aws", "result"}) =>
                  /\ ~tasks[r].cancel_requested
                  /\ r \in consumed
                  /\ response_task = None
                  /\ Count(r) = 1
                  /\ out[Len(out)] = r
                  /\ request_task \notin consumed)
    /\ [][(\E r \in TaskIds : BothDone(r)) =>
            /\ pc = "check_cancel" => tasks' = tasks
            /\ pc = "check_aws" => pc' = "result"
            /\ pc = "result" =>
                  /\ request_task \in consumed'
                  /\ (tasks[request_task].status = "ok"
                        /\ tasks[request_task].transcript) => pc' = "create_response"]_vars

\* C20 witness: the request, returned done together with the response, is
\* about to be processed and carries a transcript.
C20_Witness ==
    /\ pc = "result"
    /\ \E r \in TaskIds : BothDone(r) /\ Count(r) = 1
    /\ tasks[request_task].status = "ok"
    /\ tasks[request_task].transcript

====
